---------------------------- MODULE Spec2Model ----------------------------
(***************************************************************************)
(* A model of the symbolic differentiation engine of rob-gage/calculus:    *)
(* the Expression tree, Expression::reduce and Expression::differentiate   *)
(* (engine/src/expression.rs), driven in the order the front ends call     *)
(* them (web-interface/src/lib.rs: reduce, differentiate, reduce;          *)
(* interface/src/main.rs: differentiate on the tree as built).             *)
(*                                                                         *)
(* A tree is a record [tag, val, args]: tag is the enum case, val the      *)
(* BigInt of an Integer or the identity of a Variable (Expression<usize>,  *)
(* the default type parameter), args the children in order.  A panic of    *)
(* the Rust code (which unwinds through every caller) is the value         *)
(* Panic(code), which no operation builds a tree around.                   *)
(***************************************************************************)
EXTENDS Integers, Sequences, FiniteSets

\* Bounds of the model: an input tree has at most MaxSize nodes, and its
\* Integer leaves lie in -MaxInt..MaxInt.
MaxSize == 3
MaxInt == 1

\* The variable identities in use (usize indices: 0 is x, 1 is y).
Identities == {0, 1}

---------------------------------------------------------------------------
(* The Expression enum, engine/src/expression.rs:20-46 *)

Node(tag, val, args) == [tag |-> tag, val |-> val, args |-> args]

Sum(terms) == Node("Sum", 0, terms)
Product(factors) == Node("Product", 0, factors)
Quotient(dividend, divisor) == Node("Quotient", 0, <<dividend, divisor>>)
Power(base, exponent) == Node("Power", 0, <<base, exponent>>)
Exponential(operand) == Node("Exponential", 0, <<operand>>)
Logarithm(operand) == Node("Logarithm", 0, <<operand>>)
Variable(identifier) == Node("Variable", identifier, <<>>)
Integer(integer) == Node("Integer", integer, <<>>)

\* A panic of the Rust runtime: 1 is BigInt's "attempt to divide by zero",
\* 2 is an index out of bounds.
Panic(code) == Node("Panic", code, <<>>)
DivideByZero == Panic(1)
IndexOutOfBounds == Panic(2)

IsPanic(e) == e.tag = "Panic"

\* The first panic raised while the elements of a sequence are computed in
\* order, if any of them panics.
HasPanic(es) == \E i \in 1..Len(es) : IsPanic(es[i])
FirstPanic(es) == es[CHOOSE i \in 1..Len(es) :
                        IsPanic(es[i]) /\ \A j \in 1..(i - 1) : ~IsPanic(es[j])]

---------------------------------------------------------------------------
(* num's arithmetic on BigInt, as Expression::reduce uses it *)

Abs(n) == IF n < 0 THEN -n ELSE n

\* Integer::gcd of num: the non-negative greatest common divisor, with
\* gcd(n, 0) = |n| and gcd(0, 0) = 0.
RECURSIVE Gcd(_, _)
Gcd(a, b) == IF b = 0 THEN Abs(a) ELSE Gcd(b, Abs(a) % Abs(b))

\* BigInt / BigInt: truncating division (the dividend's sign times the
\* quotient of the magnitudes).  The caller handles a zero divisor, on which
\* BigInt's Div panics.
Divide(a, b) ==
    LET magnitude == Abs(a) \div Abs(b)
    IN  IF (a < 0) = (b < 0) THEN magnitude ELSE -magnitude

\* BigInt::pow(u32): exact exponentiation by a non-negative exponent.
RECURSIVE Pow(_, _)
Pow(base, exponent) == IF exponent = 0 THEN 1 ELSE base * Pow(base, exponent - 1)

\* BigInt::to_u32_digits().1: the magnitude in base 2^32, least significant
\* digit first; zero has no digits.  Every exponent of the model is below
\* 2^32, so a nonzero magnitude is its own single digit.
ToU32Digits(n) == IF n = 0 THEN <<>> ELSE <<Abs(n)>>

---------------------------------------------------------------------------
(* Expression::reduce, engine/src/expression.rs:107-203 *)

RECURSIVE reduce(_)

\* terms.into_iter().flat_map(..).collect() of the Sum and Product arms
\* (lines 111-118 and 142-149): a child of the parent's own kind is replaced
\* by its children, each reduced; any other child by its own reduction.
RECURSIVE flat_map(_, _)
flat_map(terms, kind) ==
    IF terms = <<>> THEN <<>>
    ELSE LET term == Head(terms)
             mapped == IF term.tag = kind
                       THEN [i \in 1..Len(term.args) |-> reduce(term.args[i])]
                       ELSE <<reduce(term)>>
         IN  mapped \o flat_map(Tail(terms), kind)

\* The Integer literals of a sequence and the sequence without them (the for
\* loops at lines 128-133 and 159-164).
RECURSIVE integer_sum(_)
integer_sum(terms) ==
    IF terms = <<>> THEN 0
    ELSE (IF Head(terms).tag = "Integer" THEN Head(terms).val ELSE 0)
            + integer_sum(Tail(terms))

RECURSIVE integer_product(_)
integer_product(terms) ==
    IF terms = <<>> THEN 1
    ELSE (IF Head(terms).tag = "Integer" THEN Head(terms).val ELSE 1)
            * integer_product(Tail(terms))

other_terms(terms) == SelectSeq(terms, LAMBDA term : term.tag # "Integer")

\* The match on the flattened terms of a Sum, lines 119-139.
matchSum(terms) ==
    IF Len(terms) = 1 THEN terms[1]
    ELSE IF Len(terms) = 0 THEN Integer(0)
    ELSE IF integer_sum(terms) = 0
         THEN IF other_terms(terms) = <<>>
              THEN Integer(0)
              ELSE Sum(other_terms(terms))
         ELSE Sum(Append(other_terms(terms), Integer(integer_sum(terms))))

\* The Sum arm, lines 110-140.
reduceSum(terms) ==
    LET flat == flat_map(terms, "Sum")
    IN  IF HasPanic(flat) THEN FirstPanic(flat) ELSE matchSum(flat)

\* The Product match with the folded literal put in front of the other
\* factors instead of pushed behind them.
matchProductLiteralFirst(factors) ==
    IF Len(factors) = 1 THEN factors[1]
    ELSE IF Len(factors) = 0 THEN Integer(0)
    ELSE IF integer_product(factors) = 0
         THEN Integer(0)
         ELSE IF integer_product(factors) # 1
              THEN Product(<<Integer(integer_product(factors))>>
                                \o other_terms(factors))
              ELSE Product(other_terms(factors))

\* The match on the flattened factors of a Product, lines 150-172.
matchProduct(factors) ==
    IF Len(factors) = 1 THEN factors[1]
    ELSE IF Len(factors) = 0 THEN Integer(0)
    ELSE IF integer_product(factors) = 0
         THEN Integer(0)
         ELSE IF integer_product(factors) # 1
              THEN Product(Append(other_terms(factors),
                                  Integer(integer_product(factors))))
              ELSE Product(other_terms(factors))

\* The Product arm, lines 141-173.
reduceProduct(factors) ==
    LET flat == flat_map(factors, "Product")
    IN  IF HasPanic(flat) THEN FirstPanic(flat) ELSE matchProduct(flat)

\* The fraction of two Integer literals, lines 179-186.
reduceFraction(numerator, denominator) ==
    LET gcd == Gcd(numerator, denominator)
    IN  IF gcd = 0 THEN DivideByZero
        ELSE IF Divide(denominator, gcd) = 1
             THEN Integer(Divide(numerator, gcd))
             ELSE Quotient(Integer(Divide(numerator, gcd)),
                           Integer(Divide(denominator, gcd)))

\* The Quotient arm, lines 174-189: the dividend is reduced first.
reduceQuotient(terms) ==
    LET dividend == reduce(terms[1])
    IN  IF IsPanic(dividend) THEN dividend
        ELSE LET divisor == reduce(terms[2])
             IN  IF IsPanic(divisor) THEN divisor
                 ELSE IF dividend.tag = "Integer" /\ divisor.tag = "Integer"
                      THEN reduceFraction(dividend.val, divisor.val)
                      ELSE Quotient(dividend, divisor)

\* The fold of two Integer literals, lines 194-197.  The guard's upper limit
\* u32::MAX is above every exponent of the model.
foldPower(base, exponent) ==
    IF ToU32Digits(exponent) = <<>> THEN IndexOutOfBounds
    ELSE Integer(Pow(base, ToU32Digits(exponent)[1]))

\* The Power arm, lines 190-200: the base is reduced first.
reducePower(terms) ==
    LET base == reduce(terms[1])
    IN  IF IsPanic(base) THEN base
        ELSE LET exponent == reduce(terms[2])
             IN  IF IsPanic(exponent) THEN exponent
                 ELSE IF base.tag = "Integer" /\ exponent.tag = "Integer"
                         /\ exponent.val >= 0
                      THEN foldPower(base.val, exponent.val)
                      ELSE Power(base, exponent)

reduce(expression) ==
    CASE expression.tag = "Sum" -> reduceSum(expression.args)
      [] expression.tag = "Product" -> reduceProduct(expression.args)
      [] expression.tag = "Quotient" -> reduceQuotient(expression.args)
      [] expression.tag = "Power" -> reducePower(expression.args)
      [] OTHER -> expression

---------------------------------------------------------------------------
(* Expression::differentiate, engine/src/expression.rs:206-287 *)

RECURSIVE differentiate(_, _)

\* The identity rule without its guard: every variable is taken for the one
\* differentiated by.
differentiateAnyVariable(identifier, variable) == Integer(1)

\* The identity and variable rules, lines 209-212.
differentiateVariable(identifier, variable) ==
    IF identifier = variable THEN Integer(1) ELSE Integer(0)

\* The constant rule, lines 213-214.
differentiateInteger(integer) == Integer(0)

\* The sum rule, lines 215-219.
differentiateSum(terms, variable) ==
    Sum([i \in 1..Len(terms) |-> differentiate(terms[i], variable)])

\* The factors other than the one at factor_index, in order (lines 226-230).
RemoveAt(factors, factor_index) ==
    [i \in 1..(Len(factors) - 1) |->
        IF i < factor_index THEN factors[i] ELSE factors[i + 1]]

\* The product rule with the differentiated factor left at its own place.
differentiateProductInPlace(factors, variable) ==
    Sum([factor_index \in 1..Len(factors) |->
            Product([i \in 1..Len(factors) |->
                        IF i = factor_index
                        THEN differentiate(factors[i], variable)
                        ELSE factors[i]])])

\* The product rule, lines 220-234: the differentiated factor is pushed
\* first, the other factors follow.
differentiateProduct(factors, variable) ==
    Sum([factor_index \in 1..Len(factors) |->
            Product(<<differentiate(factors[factor_index], variable)>>
                        \o RemoveAt(factors, factor_index))])

\* The quotient rule, lines 235-242.
differentiateQuotient(terms, variable) ==
    Quotient(
        Sum(<<Product(<<differentiate(terms[1], variable), terms[2]>>),
              Product(<<terms[1], differentiate(terms[2], variable)>>)>>),
        Product(<<terms[2], terms[2]>>))

\* The power rules with the shortcut of the literal exponent tried before
\* the shortcut of the literal base.
differentiatePowerExponentFirst(terms, variable) ==
    LET base == terms[1]
        exponent == terms[2]
    IN  IF exponent.tag = "Integer"
        THEN IF exponent.val = 0 THEN Integer(0)
             ELSE IF exponent.val = 1 THEN differentiate(base, variable)
             ELSE Product(<<Integer(exponent.val),
                            Power(base, Integer(exponent.val - 1)),
                            differentiate(base, variable)>>)
        ELSE IF base.tag = "Integer"
        THEN Product(<<Power(base, exponent),
                       Logarithm(base),
                       differentiate(exponent, variable)>>)
        ELSE Product(<<Power(base, exponent),
                       Sum(<<Product(<<differentiate(exponent, variable),
                                       Logarithm(base)>>),
                             Product(<<exponent,
                                       Quotient(differentiate(base, variable),
                                                base)>>)>>)>>)

\* The power rules, lines 243-275.
differentiatePower(terms, variable) ==
    LET base == terms[1]
        exponent == terms[2]
    IN  IF base.tag = "Integer"
        THEN Product(<<Power(base, exponent),
                       Logarithm(base),
                       differentiate(exponent, variable)>>)
        ELSE IF exponent.tag = "Integer"
        THEN IF exponent.val = 0 THEN Integer(0)
             ELSE IF exponent.val = 1 THEN differentiate(base, variable)
             ELSE Product(<<Integer(exponent.val),
                            Power(base, Integer(exponent.val - 1)),
                            differentiate(base, variable)>>)
        ELSE Product(<<Power(base, exponent),
                       Sum(<<Product(<<differentiate(exponent, variable),
                                       Logarithm(base)>>),
                             Product(<<exponent,
                                       Quotient(differentiate(base, variable),
                                                base)>>)>>)>>)

\* The exponential rule, lines 276-280.
differentiateExponential(term, variable) ==
    Product(<<Exponential(term), differentiate(term, variable)>>)

\* The logarithm rule with the operands of its Quotient exchanged.
differentiateLogarithmSwapped(term, variable) ==
    Quotient(term, differentiate(term, variable))

\* The logarithm rule, lines 281-285.
differentiateLogarithm(term, variable) ==
    Quotient(differentiate(term, variable), term)

differentiate(expression, variable) ==
    CASE expression.tag = "Variable" ->
            differentiateVariable(expression.val, variable)
      [] expression.tag = "Integer" -> differentiateInteger(expression.val)
      [] expression.tag = "Sum" -> differentiateSum(expression.args, variable)
      [] expression.tag = "Product" ->
            differentiateProduct(expression.args, variable)
      [] expression.tag = "Quotient" ->
            differentiateQuotient(expression.args, variable)
      [] expression.tag = "Power" -> differentiatePower(expression.args, variable)
      [] expression.tag = "Exponential" ->
            differentiateExponential(expression.args[1], variable)
      [] expression.tag = "Logarithm" ->
            differentiateLogarithm(expression.args[1], variable)

---------------------------------------------------------------------------
(* Expression::evaluate, engine/src/expression.rs:53-104 *)

\* An f64 is known by its class only, and a computed f64 is the set of the
\* classes that IEEE 754 arithmetic can give it: the magnitudes are not
\* modelled, so a sum of a positive and a negative number may have any sign,
\* and any arithmetic on finite numbers may overflow or underflow.
Floats == {"nan", "-inf", "neg", "zero", "pos", "+inf"}

Negative(a) == a \in {"-inf", "neg"}
Infinite(a) == a \in {"-inf", "+inf"}

\* a + b
FloatAdd(a, b) ==
    IF a = "nan" \/ b = "nan" THEN {"nan"}
    ELSE IF Infinite(a) /\ Infinite(b) THEN (IF a = b THEN {a} ELSE {"nan"})
    ELSE IF Infinite(a) THEN {a}
    ELSE IF Infinite(b) THEN {b}
    ELSE IF a = "zero" THEN {b}
    ELSE IF b = "zero" THEN {a}
    ELSE IF a = b THEN {a, IF a = "pos" THEN "+inf" ELSE "-inf"}
    ELSE {"neg", "zero", "pos"}

\* a * b
FloatMultiply(a, b) ==
    IF a = "nan" \/ b = "nan" THEN {"nan"}
    ELSE IF (Infinite(a) /\ b = "zero") \/ (a = "zero" /\ Infinite(b)) THEN {"nan"}
    ELSE IF a = "zero" \/ b = "zero" THEN {"zero"}
    ELSE IF Infinite(a) \/ Infinite(b)
         THEN {IF Negative(a) = Negative(b) THEN "+inf" ELSE "-inf"}
    ELSE IF Negative(a) = Negative(b) THEN {"pos", "zero", "+inf"}
    ELSE {"neg", "zero", "-inf"}

\* a / b: a division by zero is an infinity or a NaN, never an error.
FloatDivide(a, b) ==
    IF a = "nan" \/ b = "nan" THEN {"nan"}
    ELSE IF (Infinite(a) /\ Infinite(b)) \/ (a = "zero" /\ b = "zero") THEN {"nan"}
    ELSE IF b = "zero" THEN {"+inf", "-inf"}
    ELSE IF a = "zero" \/ Infinite(b) THEN {"zero"}
    ELSE IF Infinite(a)
         THEN {IF Negative(a) = Negative(b) THEN "+inf" ELSE "-inf"}
    ELSE IF Negative(a) = Negative(b) THEN {"pos", "zero", "+inf"}
    ELSE {"neg", "zero", "-inf"}

\* a.powf(b): 1 for a zero exponent, otherwise of any class.
FloatPower(a, b) == IF b = "zero" THEN {"pos"} ELSE Floats

\* E.powf(a)
FloatExponential(a) ==
    CASE a = "nan" -> {"nan"}
      [] a = "-inf" -> {"zero"}
      [] a = "neg" -> {"pos", "zero"}
      [] a = "zero" -> {"pos"}
      [] a = "pos" -> {"pos", "+inf"}
      [] a = "+inf" -> {"+inf"}

\* a.ln(): the logarithm of a negative number is a NaN, never an error.
FloatLogarithm(a) ==
    CASE a \in {"nan", "-inf", "neg"} -> {"nan"}
      [] a = "zero" -> {"-inf"}
      [] a = "pos" -> {"neg", "zero", "pos"}
      [] a = "+inf" -> {"+inf"}

\* BigInt::to_f64 of a literal of the model (none is too large for an f64,
\* so unwrap_or(f64::NAN) takes the value).
to_f64(integer) ==
    IF integer = 0 THEN {"zero"} ELSE IF integer < 0 THEN {"neg"} ELSE {"pos"}

\* The closure applied to a pair of f64, and to one f64.
Apply2(op, a, b) ==
    CASE op = "+=" -> FloatAdd(a, b)
      [] op = "*=" -> FloatMultiply(a, b)
      [] op = "/" -> FloatDivide(a, b)
      [] op = "powf" -> FloatPower(a, b)
Apply1(op, a) ==
    CASE op = "E.powf" -> FloatExponential(a)
      [] op = "ln" -> FloatLogarithm(a)

\* The closure on two computed f64, and on one.
Lift2(op, A, B) == UNION {Apply2(op, a, b) : a \in A, b \in B}
Lift1(op, A) == UNION {Apply1(op, a) : a \in A}

\* a.zip(b).map(op): as long as the shorter of the two.
Zip(op, as, bs) ==
    [i \in 1..(IF Len(as) <= Len(bs) THEN Len(as) ELSE Len(bs)) |->
        Lift2(op, as[i], bs[i])]

\* Result<Vec<f64>, ()>
Ok(output) == [ok |-> TRUE, output |-> output]
Err == [ok |-> FALSE, output |-> <<>>]

RECURSIVE evaluate(_, _, _)

\* The loops of the Sum and Product arms, lines 57-62 and 67-72: the first
\* term that fails ends the evaluation (the ? operator).
RECURSIVE evaluateTerms(_, _, _, _, _)
evaluateTerms(op, output, terms, variable, values) ==
    IF terms = <<>> THEN Ok(output)
    ELSE LET term_values == evaluate(Head(terms), variable, values)
         IN  IF ~term_values.ok THEN Err
             ELSE evaluateTerms(op, Zip(op, output, term_values.output),
                                Tail(terms), variable, values)

\* The Quotient and Power arms, lines 75-86.
evaluateOperands(op, operands, variable, values) ==
    LET a == evaluate(operands[1], variable, values)
    IN  IF ~a.ok THEN Err
        ELSE LET b == evaluate(operands[2], variable, values)
             IN  IF ~b.ok THEN Err ELSE Ok(Zip(op, a.output, b.output))

\* The Exponential and Logarithm arms, lines 87-96.
evaluateOperand(op, operand, variable, values) ==
    LET a == evaluate(operand, variable, values)
    IN  IF ~a.ok THEN Err
        ELSE Ok([i \in 1..Len(a.output) |-> Lift1(op, a.output[i])])

\* The Variable arm with its guard dropped: every variable takes the values.
evaluateAnyVariable(identifier, variable, values) == Ok(values)

\* The Variable arm, line 97, and the fallthrough arm, line 102.
evaluateVariable(identifier, variable, values) ==
    IF identifier = variable THEN Ok(values) ELSE Err

evaluate(expression, variable, values) ==
    CASE expression.tag = "Sum" ->
            evaluateTerms("+=", [i \in 1..Len(values) |-> {"zero"}],
                          expression.args, variable, values)
      [] expression.tag = "Product" ->
            evaluateTerms("*=", [i \in 1..Len(values) |-> {"pos"}],
                          expression.args, variable, values)
      [] expression.tag = "Quotient" ->
            evaluateOperands("/", expression.args, variable, values)
      [] expression.tag = "Power" ->
            evaluateOperands("powf", expression.args, variable, values)
      [] expression.tag = "Exponential" ->
            evaluateOperand("E.powf", expression.args[1], variable, values)
      [] expression.tag = "Logarithm" ->
            evaluateOperand("ln", expression.args[1], variable, values)
      [] expression.tag = "Variable" ->
            evaluateVariable(expression.val, variable, values)
      [] expression.tag = "Integer" ->
            Ok([i \in 1..Len(values) |-> to_f64(expression.val)])

---------------------------------------------------------------------------
(* impl Display for Expression<String>, engine/src/expression.rs:291-320 *)

\* A String is the sequence of its characters.
DecimalDigits == <<"0", "1", "2", "3", "4", "5", "6", "7", "8", "9">>

\* The decimal digits of a natural number.
RECURSIVE to_digits(_)
to_digits(n) ==
    IF n < Len(DecimalDigits) THEN <<DecimalDigits[n + 1]>>
    ELSE to_digits(n \div Len(DecimalDigits))
            \o <<DecimalDigits[(n % Len(DecimalDigits)) + 1]>>

\* BigInt::to_string
to_string(integer) ==
    IF integer < 0 THEN <<"-">> \o to_digits(-integer) ELSE to_digits(integer)

RECURSIVE Display(_)

\* The loops of the Sum and Product arms: the terms with the separator
\* between them.
RECURSIVE DisplayTerms(_, _)
DisplayTerms(terms, separator) ==
    IF terms = <<>> THEN <<>>
    ELSE IF Len(terms) = 1 THEN Display(terms[1])
    ELSE DisplayTerms(SubSeq(terms, 1, Len(terms) - 1), separator)
            \o separator \o Display(terms[Len(terms)])

Display(expression) ==
    CASE expression.tag = "Sum" ->
            DisplayTerms(expression.args, <<" ", "+", " ">>)
      [] expression.tag = "Product" ->
            DisplayTerms(expression.args, <<" ", "\\", "c", "d", "o", "t", " ">>)
      [] expression.tag = "Quotient" ->
            <<"\\", "d", "i", "s", "p", "l", "a", "y", "s", "t", "y", "l", "e",
              " ", "\\", "f", "r", "a", "c", "{">>
                \o Display(expression.args[1]) \o <<"}", "{">>
                \o Display(expression.args[2]) \o <<"}">>
      [] expression.tag = "Power" ->
            Display(expression.args[1]) \o <<"^", "{">>
                \o Display(expression.args[2]) \o <<"}">>
      [] expression.tag = "Exponential" ->
            <<"e", "^", "{">> \o Display(expression.args[1]) \o <<"}">>
      [] expression.tag = "Logarithm" ->
            <<"\\", "l", "n", "(">> \o Display(expression.args[1]) \o <<")">>
      [] expression.tag = "Variable" -> expression.val
      [] expression.tag = "Integer" -> to_string(expression.val)

---------------------------------------------------------------------------
(* The parser, syntax/src/lib.rs:9-130 *)

\* The grammar is written with the combinators of the pups crate, which is
\* not part of the repository.  They are taken to be the usual ones of a
\* parsing expression grammar: a parser consumes a prefix of the text or
\* fails, choice takes the first alternative that succeeds, and a parser
\* that fails consumes nothing.  parse() applies a parser at the cursor and
\* does not look at what follows: the grammar's own functions call it on
\* their sub-productions in the middle of the text.

\* What a parser returns: the value and the text that follows it.
Parsed(value, rest) == [ok |-> TRUE, value |-> value, rest |-> rest]
Unparsed == [ok |-> FALSE, value |-> <<>>, rest |-> <<>>]

Whitespace == {" "}
Digits == {DecimalDigits[i] : i \in DOMAIN DecimalDigits}
\* The letters of the texts of the model.
Letters == {"a", "b", "c", "d", "e", "f", "g", "i", "l", "n", "o", "p", "r",
            "s", "t", "x", "y"}

Drop(input, n) == SubSeq(input, n + 1, Len(input))

\* The number of leading characters of the text that are in the class.
RECURSIVE Span(_, _)
Span(input, class) ==
    IF input # <<>> /\ Head(input) \in class
    THEN Span(Tail(input), class) + 1 ELSE 0

\* str::trim
RECURSIVE trim_end(_)
trim_end(input) ==
    IF input # <<>> /\ input[Len(input)] \in Whitespace
    THEN trim_end(SubSeq(input, 1, Len(input) - 1)) ELSE input
trim(input) == trim_end(Drop(input, Span(input, Whitespace)))

\* token(string)
token(string, input) ==
    IF Len(input) >= Len(string) /\ SubSeq(input, 1, Len(string)) = string
    THEN Parsed(string, Drop(input, Len(string))) ELSE Unparsed

\* whitespace().or_not(): the text after the whitespace at the cursor.
whitespace_or_not(input) == Drop(input, Span(input, Whitespace))

\* delimited(whitespace().or_not(), token(symbol), whitespace().or_not())
operator(symbol, input) ==
    LET sign == token(symbol, whitespace_or_not(input))
    IN  IF sign.ok THEN Parsed(symbol, whitespace_or_not(sign.rest))
        ELSE Unparsed

\* number(): decimal digits, with a sign before them or not.
number(input) ==
    LET signed == input # <<>> /\ Head(input) = "-"
        digits == Span(IF signed THEN Tail(input) ELSE input, Digits)
        length == IF signed THEN digits + 1 ELSE digits
    IN  IF digits = 0 THEN Unparsed
        ELSE Parsed(SubSeq(input, 1, length), Drop(input, length))

\* The value of a decimal digit.
digit_value(character) ==
    CHOOSE value \in 0..(Len(DecimalDigits) - 1) :
        DecimalDigits[value + 1] = character

\* BigInt::from_str
RECURSIVE from_digits(_)
from_digits(digits) ==
    IF digits = <<>> THEN 0
    ELSE from_digits(SubSeq(digits, 1, Len(digits) - 1)) * Len(DecimalDigits)
            + digit_value(digits[Len(digits)])
from_str(string) ==
    IF Head(string) = "-" THEN -from_digits(Tail(string))
    ELSE from_digits(string)

\* unicode_identifier(): a letter, then letters, digits and underscores.
unicode_identifier(input) ==
    IF input = <<>> \/ Head(input) \notin Letters THEN Unparsed
    ELSE LET length == Span(Tail(input), Letters \cup Digits \cup {"_"}) + 1
         IN  Parsed(SubSeq(input, 1, length), Drop(input, length))

\* The value of a set of one element.  Below, name \in {parser(input)}
\* names what the parser returns, so that it is computed once.
Only(set) == CHOOSE element \in set : TRUE

\* fn expression: the name is the one of the tree of the pipeline here.
RECURSIVE expression_syntax(_)
RECURSIVE quaternary(_)
RECURSIVE tertiary(_)
RECURSIVE secondary(_)
RECURSIVE primary(_)

\* A value and the text after it, or the failure.
Value(parsed, value) ==
    IF parsed.ok THEN Parsed(value, parsed.rest) ELSE Unparsed

\* delimited(token(opening).then(whitespace().or_not()), expression,
\*           whitespace().or_not().then(token(")")))
enclosed(opening, input) ==
    Only({ IF ~open.ok THEN Unparsed
           ELSE Only({ IF ~inner.ok THEN Unparsed
                       ELSE Value(token(<<")">>, whitespace_or_not(inner.rest)),
                                  inner.value) :
                       inner \in {expression_syntax(whitespace_or_not(open.rest))} }) :
           open \in {token(opening, input)} })

parentheses(input) == enclosed(<<"(">>, input)

\* The alternatives of primary after the named functions.
primary_atom(input) ==
    LET integer == number(input)
        identifier == unicode_identifier(input)
    IN  IF integer.ok
        THEN Parsed(Integer(from_str(integer.value)), integer.rest)
        ELSE IF identifier.ok
        THEN Parsed(Variable(identifier.value), identifier.rest)
        ELSE parentheses(input)

primary(input) ==
    Only({ IF exponential.ok
           THEN Parsed(Exponential(exponential.value), exponential.rest)
           ELSE Only({ IF logarithm.ok
                       THEN Parsed(Logarithm(logarithm.value), logarithm.rest)
                       ELSE primary_atom(input) :
                       logarithm \in {enclosed(<<"l", "n", "(">>, input)} }) :
           exponential \in {enclosed(<<"e", "x", "p", "(">>, input)} })

\* The Power alternative: primary, "^", primary.
power(input) ==
    Only({ IF ~base.ok THEN Unparsed
           ELSE Only({ IF ~sign.ok THEN Unparsed
                       ELSE Only({ Value(exponent,
                                         Power(base.value, exponent.value)) :
                                   exponent \in {primary(sign.rest)} }) :
                       sign \in {operator(<<"^">>, base.rest)} }) :
           base \in {primary(input)} })

secondary(input) ==
    Only({ IF first.ok THEN first ELSE primary(input) :
           first \in {power(input)} })

\* repeated(parentheses): the values of as many as there are, and the text
\* after the last of them.
RECURSIVE repeated_parentheses(_, _)
repeated_parentheses(input, factors) ==
    Only({ IF ~factor.ok THEN Parsed(factors, input)
           ELSE repeated_parentheses(factor.rest, Append(factors, factor.value)) :
           factor \in {parentheses(input)} })

\* repeated_at_least(parentheses, minimum)
repeated_at_least(input, minimum) ==
    Only({ IF Len(factors.value) >= minimum THEN factors ELSE Unparsed :
           factors \in {repeated_parentheses(input, <<>>)} })

tertiary(input) ==
    Only({ IF factors.ok THEN Parsed(Product(factors.value), factors.rest)
           ELSE secondary(input) :
           factors \in {repeated_at_least(input, 2)} })

\* The Division alternative: tertiary, "/", tertiary.
division(input) ==
    Only({ IF ~dividend.ok THEN Unparsed
           ELSE Only({ IF ~sign.ok THEN Unparsed
                       ELSE Only({ Value(divisor,
                                         Quotient(dividend.value, divisor.value)) :
                                   divisor \in {tertiary(sign.rest)} }) :
                       sign \in {operator(<<"/">>, dividend.rest)} }) :
           dividend \in {tertiary(input)} })

\* The factors that follow the first, each after a "*": as many as there
\* are, and the text after the last of them.
RECURSIVE separated_rest(_, _)
separated_rest(input, factors) ==
    Only({ IF ~sign.ok THEN Parsed(factors, input)
           ELSE Only({ IF ~factor.ok THEN Parsed(factors, input)
                       ELSE separated_rest(factor.rest,
                                           Append(factors, factor.value)) :
                       factor \in {tertiary(sign.rest)} }) :
           sign \in {operator(<<"*">>, input)} })

\* separated_at_least(tertiary, "*", minimum)
separated_at_least(input, minimum) ==
    Only({ IF ~first.ok THEN Unparsed
           ELSE Only({ IF Len(factors.value) >= minimum THEN factors
                       ELSE Unparsed :
                       factors \in {separated_rest(first.rest, <<first.value>>)} }) :
           first \in {tertiary(input)} })

quaternary(input) ==
    Only({ IF quotient.ok THEN quotient
           ELSE Only({ IF factors.ok
                       THEN Parsed(Product(factors.value), factors.rest)
                       ELSE tertiary(input) :
                       factors \in {separated_at_least(input, 2)} }) :
           quotient \in {division(input)} })

\* The second alternative of the first term: "-" and a quaternary.
negated_term(input) ==
    Only({ IF ~minus.ok THEN Unparsed
           ELSE Only({ Value(negated,
                             Product(<<negated.value, Integer(-1)>>)) :
                       negated \in {quaternary(whitespace_or_not(minus.rest))} }) :
           minus \in {token(<<"-">>, input)} })

\* The first term: quaternary, or "-" and a quaternary.
first_term(input) ==
    Only({ IF term.ok THEN term ELSE negated_term(input) :
           term \in {quaternary(input)} })

\* The sign of a term that follows: "+" is true, "-" is false.
sign_of_term(input) ==
    LET plus == operator(<<"+">>, input)
        minus == operator(<<"-">>, input)
    IN  IF plus.ok THEN Parsed(TRUE, plus.rest) ELSE Value(minus, FALSE)

\* repeated(sign and quaternary): the terms that follow the first, as many
\* as there are, and the text after the last of them.
RECURSIVE repeated_terms(_, _)
repeated_terms(input, terms) ==
    Only({ IF ~positive.ok THEN Parsed(terms, input)
           ELSE Only({ IF ~term.ok THEN Parsed(terms, input)
                       ELSE repeated_terms(term.rest, Append(terms,
                                IF positive.value THEN term.value
                                ELSE Product(<<Integer(-1), term.value>>))) :
                       term \in {quaternary(positive.rest)} }) :
           positive \in {sign_of_term(input)} })

expression_syntax(input) ==
    Only({ IF ~first.ok THEN Unparsed
           ELSE Only({ IF Len(terms.value) # 1
                       THEN Parsed(Sum(terms.value), terms.rest)
                       ELSE Parsed(terms.value[1], terms.rest) :
                       terms \in {repeated_terms(first.rest, <<first.value>>)} }) :
           first \in {first_term(input)} })

parse_expression(syntax) ==
    LET parsed == expression_syntax(trim(syntax))
    IN  IF parsed.ok THEN Ok(parsed.value) ELSE Err

---------------------------------------------------------------------------
(* Namespace, engine/src/namespace.rs:13-61 and core/src/namespace.rs:7-56 *)

\* Namespace::new
new == [variables |-> <<>>, identifiers |-> <<>>]

\* HashMap::insert
insert(identifiers, name, identifier) ==
    [n \in DOMAIN identifiers \cup {name} |->
        IF n = name THEN identifier ELSE identifiers[n]]

\* What intern leaves behind: the namespace as mutated and the tree returned.
Interned(namespace, expression) ==
    [namespace |-> namespace, expression |-> expression]

RECURSIVE intern(_, _)

\* terms.into_iter().map(|term| self.intern(term)).collect(), and the pairs
\* of operands: the children are interned from left to right, each in the
\* namespace the one before it left.
RECURSIVE internEach(_, _, _)
internEach(namespace, terms, done) ==
    IF terms = <<>> THEN [namespace |-> namespace, expressions |-> done]
    ELSE LET first == intern(namespace, Head(terms))
         IN  internEach(first.namespace, Tail(terms),
                        Append(done, first.expression))

\* The Logarithm arm, line 50: the node is rebuilt as an Exponential.
internLogarithm(namespace, operand) ==
    LET inner == intern(namespace, operand)
    IN  Interned(inner.namespace, Exponential(inner.expression))

\* The Variable arm without its lookup: every occurrence of a name is taken
\* for a new name.
internVariableAlwaysNew(namespace, name) ==
    LET identifier == Len(namespace.variables)
    IN  Interned([variables |-> Append(namespace.variables, name),
                  identifiers |-> insert(namespace.identifiers, name,
                                         identifier)],
                 Variable(identifier))

\* The Variable arm, lines 51-58.
internVariable(namespace, name) ==
    IF name \in DOMAIN namespace.identifiers
    THEN Interned(namespace, Variable(namespace.identifiers[name]))
    ELSE LET identifier == Len(namespace.variables)
         IN  Interned([variables |-> Append(namespace.variables, name),
                       identifiers |-> insert(namespace.identifiers, name,
                                              identifier)],
                      Variable(identifier))

intern(namespace, expression) ==
    CASE expression.tag \in {"Sum", "Product", "Quotient", "Power", "Exponential"} ->
            LET children == internEach(namespace, expression.args, <<>>)
            IN  Interned(children.namespace,
                         Node(expression.tag, expression.val, children.expressions))
      [] expression.tag = "Logarithm" ->
            internLogarithm(namespace, expression.args[1])
      [] expression.tag = "Variable" ->
            internVariable(namespace, expression.val)
      [] expression.tag = "Integer" ->
            Interned(namespace, expression)

---------------------------------------------------------------------------
(* The trees the operations are applied to *)

Leaves == {Variable(i) : i \in Identities} \cup {Integer(k) : k \in -MaxInt..MaxInt}

\* The sequences of trees whose sizes add up to total, levels[k] being the
\* trees of k nodes.
RECURSIVE Children(_, _)
Children(levels, total) ==
    IF total = 0 THEN {<<>>}
    ELSE UNION {{<<first>> \o rest : first \in levels[k],
                                      rest \in Children(levels, total - k)} :
                   k \in 1..total}

\* The trees of Len(levels) + 1 nodes.
NextLevel(levels) ==
    LET children == Children(levels, Len(levels))
        one == {c \in children : Len(c) = 1}
        two == {c \in children : Len(c) = 2}
    IN  (IF levels = <<>> THEN Leaves ELSE {})
        \cup {Sum(c) : c \in children}
        \cup {Product(c) : c \in children}
        \cup {Quotient(c[1], c[2]) : c \in two}
        \cup {Power(c[1], c[2]) : c \in two}
        \cup {Exponential(c[1]) : c \in one}
        \cup {Logarithm(c[1]) : c \in one}

RECURSIVE Levels(_)
Levels(size) ==
    IF size = 0 THEN <<>>
    ELSE LET smaller == Levels(size - 1) IN Append(smaller, NextLevel(smaller))

\* Every tree of at most MaxSize nodes.
SmallExpressions ==
    LET levels == Levels(MaxSize) IN UNION {levels[k] : k \in 1..MaxSize}

x == Variable(0)
y == Variable(1)

\* Trees of more than MaxSize nodes, or with larger literals, that
\* exercise constant folding, nested aggregates and unary operands.
ExampleExpressions ==
    { Sum(<<Integer(2), Integer(3)>>),
      Product(<<Integer(4), Integer(0)>>),
      Quotient(Integer(6), Integer(9)),
      Product(<<Integer(0), Quotient(Integer(0), Integer(0))>>),
      Sum(<<Sum(<<Sum(<<x, y>>), x>>)>>),
      Product(<<Product(<<Product(<<x, y>>), x>>)>>),
      Exponential(Sum(<<Integer(1), Integer(2)>>)),
      Power(x, Integer(2)),
      Power(x, Integer(3)),
      Power(y, Integer(3)),
      Quotient(x, Sum(<<x, Integer(1)>>)),
      Product(<<x, y, Exponential(x)>>) }

\* The names the variables are written with.
Names == [identifier \in Identities |->
            IF identifier = 0 THEN <<"x">> ELSE <<"y">>]

\* The tree over String identities (pub type Syntax = Expression<String>)
\* that has the tree's variables by name.
RECURSIVE Syntax(_)
Syntax(e) ==
    IF e.tag = "Variable" THEN Variable(Names[e.val])
    ELSE Node(e.tag, e.val, [i \in 1..Len(e.args) |-> Syntax(e.args[i])])

Expressions == SmallExpressions \cup ExampleExpressions

\* The trees over String identities that are interned one after the other
\* in one Namespace.
VariableNames == {<<"x">>, <<"y">>, <<"z">>}

NamedExpressions ==
    {Variable(a) : a \in VariableNames}
    \cup {Sum(<<Variable(a), Variable(b)>>) : a \in VariableNames, b \in VariableNames}
    \cup {Quotient(Variable(a), Logarithm(Variable(b))) :
                a \in VariableNames, b \in VariableNames}

---------------------------------------------------------------------------
(* The pipeline of the front ends *)

\* The texts that are typed: every text of at most MaxText characters of
\* the alphabet, and the examples.
MaxText == 3

Alphabet == {"x", "2", "+", "-", "*", "/", "^", "(", ")", " "}

ExampleTexts ==
    { <<"x", " ", "+">>,
      <<"(", "x">>,
      <<"a", "*", "b", "/", "c">>,
      <<"e", "x", "p", "(", "x", ")", " ", "*", " ", "x", "^", "2">>,
      <<"l", "n", "(", "x", ")", " ", "-", " ", "(", "x", ")", "(", "y", ")">>,
      <<"e", "x", "p", "(", "x", ")">>,
      <<"e", "x", "p", "(", "x", " ", "+", " ", "2", ")">>,
      <<"l", "n", "(", "x", ")">>,
      <<"l", "o", "g", "(", "x", ")">>,
      <<"l", "o", "g", "(", "x", "*", "x", ")">> }

Texts == UNION {[1..length -> Alphabet] : length \in 0..MaxText} \cup ExampleTexts

\* The x values a formula is sampled at: none, one, and the three samples
\* -1, 0, 1.
SampleLists == {<<>>, <<{"zero"}>>, <<{"neg"}, {"zero"}, {"pos"}>>}

VARIABLES
    pc,          \* the last operation applied
    expression,  \* the tree as built by the caller
    variable,    \* the variable of the last differentiation or evaluation
    subject,     \* the tree the last operation consumed
    result,      \* the value the last operation produced
    values,      \* the samples of the last evaluation
    y_values,    \* what the last evaluation returned
    namespace,   \* the Namespace of the interning
    text,        \* the text last rendered or typed
    syntax       \* what the parser returned for the text

vars ==
    <<pc, expression, variable, subject, result, values, y_values, namespace,
      text, syntax>>

Init ==
    /\ expression \in Expressions
    /\ pc = "built"
    /\ variable = 0
    /\ subject = expression
    /\ result = expression
    /\ values = <<>>
    /\ y_values = Ok(<<>>)
    /\ namespace = new
    /\ text = <<>>
    /\ syntax = Err

\* formula: parse_expression(..).map(|e| e.reduce()), and in
\* derivative_formula the reduce() of the derivative.
Reduce ==
    /\ pc \in {"built", "differentiated"}
    /\ ~IsPanic(result)
    /\ pc' = IF pc = "built" THEN "reduced" ELSE "derived"
    /\ subject' = result
    /\ result' = reduce(result)
    /\ UNCHANGED <<expression, variable, values, y_values, namespace, text, syntax>>

\* A tree that reduce returned is handed to reduce once more, as
\* Monomial::from_factors does with the factors of a reduced Product.
ReduceAgain ==
    /\ pc = "reduced"
    /\ ~IsPanic(result)
    /\ pc' = "rereduced"
    /\ subject' = result
    /\ result' = reduce(result)
    /\ UNCHANGED <<expression, variable, values, y_values, namespace, text, syntax>>

\* expression.differentiate(&variable) on the tree as built (main.rs) or on
\* the reduced formula (App).
Differentiate ==
    /\ pc \in {"built", "reduced"}
    /\ ~IsPanic(result)
    /\ \E v \in Identities :
        /\ variable' = v
        /\ result' = differentiate(result, v)
    /\ pc' = "differentiated"
    /\ subject' = result
    /\ UNCHANGED <<expression, values, y_values, namespace, text, syntax>>

\* segments(formula, x_values, ..): formula.evaluate(&"x", &x_values) on the
\* reduced formula and on its reduced derivative (graph.rs:67-68, 158); the
\* method is public, so it is applied to the trees as built as well.
Evaluate ==
    /\ pc \in {"built", "reduced", "derived"}
    /\ ~IsPanic(result)
    /\ \E v \in Identities, x_values \in SampleLists :
        /\ variable' = v
        /\ values' = x_values
        /\ y_values' = evaluate(result, v, x_values)
    /\ pc' = "evaluated"
    /\ subject' = result
    /\ UNCHANGED <<expression, result, namespace, text, syntax>>

\* namespace.intern(syntax) on the tree as written with names.
Intern ==
    /\ pc = "built"
    /\ LET interned == intern(namespace, Syntax(expression))
       IN  /\ namespace' = interned.namespace
           /\ result' = interned.expression
    /\ pc' = "interned"
    /\ subject' = Syntax(expression)
    /\ UNCHANGED <<expression, variable, values, y_values, text, syntax>>

\* format!("{}", f) on the tree with its variables by name: the parsed tree
\* (interface/src/main.rs:23), the reduced formula and its reduced
\* derivative (web-interface/src/lib.rs:36-39).
Render ==
    /\ pc \in {"built", "reduced", "derived"}
    /\ ~IsPanic(result)
    /\ text' = Display(Syntax(result))
    /\ pc' = "rendered"
    /\ subject' = Syntax(result)
    /\ UNCHANGED <<expression, variable, result, values, y_values, namespace,
                   syntax>>

\* parse_expression on the text, rendered or typed.
Parse ==
    /\ pc \in {"rendered", "typed"}
    /\ syntax' = parse_expression(text)
    /\ pc' = IF pc = "rendered" THEN "reparsed" ELSE "parsed"
    /\ UNCHANGED <<expression, variable, subject, result, values, y_values,
                   namespace, text>>

Next ==
    \/ Reduce \/ ReduceAgain \/ Differentiate \/ Evaluate \/ Intern
    \/ Render \/ Parse

Spec == Init /\ [][Next]_vars

\* The parser alone, on the texts that are typed.
InitSyntax ==
    /\ text \in Texts
    /\ pc = "typed"
    /\ expression = x
    /\ variable = 0
    /\ subject = x
    /\ result = x
    /\ values = <<>>
    /\ y_values = Ok(<<>>)
    /\ namespace = new
    /\ syntax = Err

NextSyntax == Parse

SpecSyntax == InitSyntax /\ [][NextSyntax]_vars

\* One Namespace, and the calls of intern on it.
InitNamespace ==
    /\ namespace = new
    /\ pc = "named"
    /\ expression = x
    /\ variable = 0
    /\ subject = x
    /\ result = x
    /\ values = <<>>
    /\ y_values = Ok(<<>>)
    /\ text = <<>>
    /\ syntax = Err

\* namespace.intern(syntax), once more on the same Namespace.
InternNext ==
    /\ pc \in {"named", "interned"}
    /\ \E named \in NamedExpressions :
        LET interned == intern(namespace, named)
        IN  /\ namespace' = interned.namespace
            /\ result' = interned.expression
            /\ subject' = named
    /\ pc' = "interned"
    /\ UNCHANGED <<expression, variable, values, y_values, text, syntax>>

NextNamespace == InternNext

SpecNamespace == InitNamespace /\ [][NextNamespace]_vars

---------------------------------------------------------------------------
(* Vocabulary of the properties *)

\* The last operation was a reduce that returned a tree.
Reduced == pc \in {"reduced", "rereduced", "derived"} /\ ~IsPanic(result)

IsAggregate(e) == e.tag \in {"Sum", "Product"}

AllIntegers(es) == \A i \in 1..Len(es) : es[i].tag = "Integer"

RECURSIVE Total(_)
Total(es) == IF es = <<>> THEN 0 ELSE Head(es).val + Total(Tail(es))

\* P holds of every node of the tree.
RECURSIVE Everywhere(_, _)
Everywhere(P(_), e) ==
    P(e) /\ \A i \in 1..Len(e.args) : Everywhere(P, e.args[i])

\* No aggregate has a child of its own kind.
NotNested(e) ==
    IsAggregate(e) => \A i \in 1..Len(e.args) : e.args[i].tag # e.tag

\* No aggregate has fewer than two children.
NotDegenerate(e) == IsAggregate(e) => Len(e.args) >= 2

\* No aggregate has two Integer literals among its children.
LiteralsCombined(e) ==
    IsAggregate(e) =>
        Cardinality({i \in 1..Len(e.args) : e.args[i].tag = "Integer"}) <= 1

\* g is the greatest common divisor of n and d, in the usual sense.
IsGreatestCommonDivisor(g, n, d) ==
    /\ g >= 1 /\ n % g = 0 /\ d % g = 0
    /\ \A h \in (g + 1)..(Abs(n) + Abs(d)) : ~(n % h = 0 /\ d % h = 0)

\* r is the fraction n/d in lowest terms, a bare Integer when its
\* denominator is 1.
IsLowestTerms(r, n, d) ==
    \E g \in 1..(Abs(n) + Abs(d)) :
        /\ IsGreatestCommonDivisor(g, n, d)
        /\ r = IF d \div g = 1
               THEN Integer(n \div g)
               ELSE Quotient(Integer(n \div g), Integer(d \div g))

---------------------------------------------------------------------------
(* The claims *)

\* C1: normalization is idempotent: reducing the result of a reduce returns
\* it unchanged, reduce(reduce(t)) = reduce(t).
C1_Idempotent == pc = "rereduced" => result = subject

\* C2: a Sum of one or more Integer literals reduces to the bare Integer of
\* their arithmetic sum, not wrapped in a Sum.
C2_SumFolds ==
    (/\ pc = "reduced"
     /\ subject.tag = "Sum" /\ subject.args # <<>> /\ AllIntegers(subject.args))
        => result = Integer(Total(subject.args))

\* C3: a Product that has an Integer(0) among its factors reduces to
\* Integer(0), whatever its other factors are.
C3_ZeroAnnihilates ==
    (/\ pc = "reduced"
     /\ subject.tag = "Product"
     /\ \E i \in 1..Len(subject.args) : subject.args[i] = Integer(0))
        => result = Integer(0)

\* C4: a Quotient of two Integer literals reduces to the fraction in lowest
\* terms: a bare Integer when the reduced denominator is 1, otherwise a
\* Quotient of two coprime Integers.
C4_LowestTerms ==
    (/\ pc = "reduced"
     /\ subject.tag = "Quotient" /\ AllIntegers(subject.args))
        => IsLowestTerms(result, subject.args[1].val, subject.args[2].val)

\* C5: in the result of reduce no Sum has a Sum as a direct child and no
\* Product has a Product as a direct child.
C5_Flattened == Reduced => Everywhere(NotNested, result)

\* C6: in the result of reduce every Sum and every Product has at least two
\* children.
C6_NoDegenerateAggregate == Reduced => Everywhere(NotDegenerate, result)

\* C7: in the result of reduce every Sum and every Product, at any depth,
\* has at most one Integer literal among its direct children.
C7_LiteralsCombined == Reduced => Everywhere(LiteralsCombined, result)

\* C8: the empty Product reduces to Integer(1), the empty Sum to Integer(0),
\* and a Product whose factors are all the literal 1 to Integer(1).
C8_IdentityElements ==
    pc = "reduced" =>
        /\ subject = Product(<<>>) => result = Integer(1)
        /\ subject = Sum(<<>>) => result = Integer(0)
        /\ (/\ subject.tag = "Product" /\ subject.args # <<>>
            /\ \A i \in 1..Len(subject.args) : subject.args[i] = Integer(1))
                => result = Integer(1)

\* C9: reduce and differentiate are total: each returns a tree and never
\* aborts.
C9_Total == ~IsPanic(result)

\* C10: the derivative of Variable(id) with respect to v is Integer(1) when
\* id = v and Integer(0) otherwise, and the derivative of an Integer literal
\* is Integer(0).
C10_LeafRules ==
    pc = "differentiated" =>
        /\ subject.tag = "Variable" =>
                result = IF subject.val = variable THEN Integer(1) ELSE Integer(0)
        /\ subject.tag = "Integer" => result = Integer(0)

\* A variable has been differentiated with respect to itself.
C10_Witness ==
    /\ pc = "differentiated"
    /\ subject = Variable(1) /\ variable = 1
    /\ result = Integer(1)

\* The tree as built is base^n for the variable differentiated by, n >= 2,
\* and the last operation reduced its derivative.
PowerDerived ==
    /\ pc = "derived"
    /\ expression.tag = "Power"
    /\ expression.args[1] = Variable(variable)
    /\ expression.args[2].tag = "Integer" /\ expression.args[2].val >= 2

\* C11 as stated: the reduced derivative of x^n, n >= 2, is
\* Product[Integer(n), Power(x, Integer(n-1))], the coefficient first.
C11_CoefficientFirst ==
    PowerDerived =>
        result = Product(<<Integer(expression.args[2].val),
                           Power(expression.args[1],
                                 Integer(expression.args[2].val - 1))>>)

\* C11 as amended: the reduced derivative of x^n, n >= 2, is
\* Product[Power(x, Integer(n-1)), Integer(n)], the coefficient last.
C11_CoefficientLast ==
    PowerDerived =>
        result = Product(<<Power(expression.args[1],
                                 Integer(expression.args[2].val - 1)),
                           Integer(expression.args[2].val)>>)

\* The derivative of x^3 has been reduced.
C11_Witness ==
    /\ pc = "derived" /\ variable = 0
    /\ expression = Power(x, Integer(3))
    /\ result = Product(<<Power(x, Integer(2)), Integer(3)>>)

\* C12: the reduced derivative of Product[x, x] with respect to x is
\* Product[Integer(2), x].
C12_ProductRuleResult ==
    (/\ pc = "derived" /\ variable = 0
     /\ expression = Product(<<x, x>>))
        => result = Product(<<Integer(2), x>>)

\* C13: the reduced derivative of Exponential(x) with respect to x is the
\* bare node Exponential(x).
C13_ExponentialResult ==
    (/\ pc = "derived" /\ variable = 0
     /\ expression = Exponential(x))
        => result = Exponential(x)

\* C14: the derivative of Logarithm(t) is Quotient(derivative of t, t), and
\* the reduced derivative of Logarithm(x) with respect to x is
\* Quotient(Integer(1), x).
C14_LogarithmRule ==
    /\ (pc = "differentiated" /\ subject.tag = "Logarithm") =>
            /\ result.tag = "Quotient"
            /\ result.args[1] = differentiate(subject.args[1], variable)
            /\ result.args[2] = subject.args[1]
    /\ (pc = "derived" /\ variable = 0 /\ expression = Logarithm(x)) =>
            result = Quotient(Integer(1), x)

\* The derivative of Logarithm(x) with respect to x has been reduced.
C14_Witness ==
    /\ pc = "derived" /\ variable = 0
    /\ expression = Logarithm(x)
    /\ subject = Quotient(Integer(1), x)
    /\ result = Quotient(Integer(1), x)

\* C15: the reduced derivative of x / (x + 1) with respect to x is
\* Quotient(Integer(1), Power(Sum[x, Integer(1)], Integer(2))).
C15_QuotientRuleResult ==
    (/\ pc = "derived" /\ variable = 0
     /\ expression = Quotient(x, Sum(<<x, Integer(1)>>)))
        => result = Quotient(Integer(1),
                             Power(Sum(<<x, Integer(1)>>), Integer(2)))

\* The last operation differentiated a Product, and the result is a Sum of
\* one Product per factor, each with as many factors as the original.
ProductRuleShape ==
    /\ result.tag = "Sum"
    /\ Len(result.args) = Len(subject.args)
    /\ \A i \in 1..Len(result.args) :
        /\ result.args[i].tag = "Product"
        /\ Len(result.args[i].args) = Len(subject.args)

\* C20 as stated: the i-th summand has the derivative of the i-th factor at
\* position i and the original factors at every other position.
C20_DerivativeInPlace ==
    (pc = "differentiated" /\ subject.tag = "Product") =>
        /\ ProductRuleShape
        /\ \A i \in 1..Len(subject.args) : \A j \in 1..Len(subject.args) :
            result.args[i].args[j] =
                IF j = i THEN differentiate(subject.args[i], variable)
                         ELSE subject.args[j]

\* C20 as amended: the i-th summand has the derivative of the i-th factor
\* as its first factor, followed by the other original factors in their
\* original order.
C20_DerivativeFirst ==
    (pc = "differentiated" /\ subject.tag = "Product") =>
        /\ ProductRuleShape
        /\ \A i \in 1..Len(subject.args) :
            /\ result.args[i].args[1] = differentiate(subject.args[i], variable)
            /\ \A j \in 2..Len(subject.args) :
                result.args[i].args[j] =
                    subject.args[IF j <= i THEN j - 1 ELSE j]

\* A product of three factors has been differentiated by its second factor.
C20_Witness ==
    /\ pc = "differentiated" /\ variable = 1
    /\ subject = Product(<<x, y, Exponential(x)>>)
    /\ result.args[2] = Product(<<Integer(1), x, Exponential(x)>>)

\* The tree has a Variable other than the designated one.
RECURSIVE HasForeignVariable(_, _)
HasForeignVariable(e, designated) ==
    \/ e.tag = "Variable" /\ e.val # designated
    \/ \E i \in 1..Len(e.args) : HasForeignVariable(e.args[i], designated)

\* C18: evaluate fails exactly when the tree has a Variable other than the
\* designated one, and otherwise returns one result per sample, whatever the
\* samples are.
C18_FailsOnForeignVariable ==
    pc = "evaluated" =>
        /\ ~y_values.ok <=> HasForeignVariable(subject, variable)
        /\ y_values.ok => Len(y_values.output) = Len(values)

\* 1 / x has been evaluated at -1, 0 and 1: the sample 0 gives an infinity,
\* not a failure.
C18_Witness ==
    /\ pc = "evaluated" /\ variable = 0
    /\ subject = Quotient(Integer(1), x)
    /\ values = <<{"neg"}, {"zero"}, {"pos"}>>
    /\ y_values.ok
    /\ y_values.output[2] = {"+inf", "-inf"}

\* The index-keyed tree has the shape of the name-keyed one: the same case
\* at every node, the same literals, the children in the same order, and for
\* every Variable(name) a Variable(index) where the table has the name at
\* the index.
RECURSIVE SameShape(_, _, _)
SameShape(named, interned, variables) ==
    /\ interned.tag = named.tag
    /\ named.tag = "Integer" => interned.val = named.val
    /\ named.tag = "Variable" =>
            /\ interned.val + 1 \in DOMAIN variables
            /\ variables[interned.val + 1] = named.val
    /\ Len(interned.args) = Len(named.args)
    /\ \A i \in 1..Len(named.args) :
            SameShape(named.args[i], interned.args[i], variables)

\* C19: intern returns a tree of the same shape as its argument, every node
\* keeping its case (a Logarithm stays a Logarithm) and its child order, with
\* only each Variable(name) replaced by Variable(index of the name).
C19_StructurePreserved ==
    pc = "interned" => SameShape(subject, result, namespace.variables)

\* C16: for every tree in canonical form over String identities, parsing
\* the text of its Display rendering succeeds and gives the tree back.
C16_RoundTrip ==
    (pc = "reparsed" /\ reduce(result) = result) =>
        /\ syntax.ok
        /\ syntax.output = subject

\* C17: parse_expression fails whenever the top-level production does not
\* consume the whole of the trimmed text; "x +", "(x" and "a*b/c" fail.
C17_RejectsPartial ==
    pc = "parsed" =>
        /\ syntax.ok => expression_syntax(trim(text)).rest = <<>>
        /\ text \in {<<"x", " ", "+">>, <<"(", "x">>,
                     <<"a", "*", "b", "/", "c">>} => ~syntax.ok

\* C21: the derivative of Quotient(num, den) is
\* Quotient(Sum[Product[d(num), den], Product[num, N]], Product[den, den]),
\* N being d(den) multiplied by Integer(-1).
C21_QuotientRuleNegates ==
    (pc = "differentiated" /\ subject.tag = "Quotient") =>
        LET num == subject.args[1]
            den == subject.args[2]
            negated == {Product(<<Integer(-1), differentiate(den, variable)>>),
                        Product(<<differentiate(den, variable), Integer(-1)>>)}
        IN  \E N \in negated :
                result = Quotient(
                    Sum(<<Product(<<differentiate(num, variable), den>>),
                          Product(<<num, N>>)>>),
                    Product(<<den, den>>))

\* C22: the derivative of Power(base, exponent) is, for a literal base,
\* Product[Power(base, exponent), Logarithm(base), d(exponent)]; otherwise,
\* for a literal exponent e, Integer(0) when e = 0, d(base) when e = 1 and
\* Product[Integer(e), Power(base, Integer(e-1)), d(base)] for any other e;
\* otherwise Product[Power(base, exponent), Sum[Product[d(exponent),
\* Logarithm(base)], Product[exponent, Quotient(d(base), base)]]].
C22_PowerCases ==
    (pc = "differentiated" /\ subject.tag = "Power") =>
        LET base == subject.args[1]
            exponent == subject.args[2]
            d_base == differentiate(base, variable)
            d_exponent == differentiate(exponent, variable)
        IN  /\ base.tag = "Integer" =>
                result = Product(<<Power(base, exponent), Logarithm(base),
                                   d_exponent>>)
            /\ (base.tag # "Integer" /\ exponent.tag = "Integer") =>
                /\ exponent.val = 0 => result = Integer(0)
                /\ exponent.val = 1 => result = d_base
                /\ exponent.val \notin {0, 1} =>
                    result = Product(<<exponent,
                                       Power(base, Integer(exponent.val - 1)),
                                       d_base>>)
            /\ (base.tag # "Integer" /\ exponent.tag # "Integer") =>
                result = Product(<<Power(base, exponent),
                                   Sum(<<Product(<<d_exponent, Logarithm(base)>>),
                                         Product(<<exponent,
                                                   Quotient(d_base, base)>>)>>)>>)

\* A Power of two literals has been differentiated: the rule of the literal
\* base was taken.
C22_Witness ==
    /\ pc = "differentiated"
    /\ subject = Power(Integer(1), Integer(1))
    /\ result = Product(<<Power(Integer(1), Integer(1)), Logarithm(Integer(1)),
                          Integer(0)>>)

\* C23: a Power whose reduced operands are Integer(b) and Integer(e) reduces
\* to Integer(b^e) when e >= 0, e = 0 included, and stays
\* Power(Integer(b), Integer(e)) when e < 0; a Power with another operand
\* reduces to the Power of its reduced operands.
C23_PowerFolds ==
    (/\ pc = "reduced" /\ subject.tag = "Power"
     /\ ~IsPanic(reduce(subject.args[1]))
     /\ ~IsPanic(reduce(subject.args[2]))) =>
        LET base == reduce(subject.args[1])
            exponent == reduce(subject.args[2])
        IN  IF base.tag = "Integer" /\ exponent.tag = "Integer"
            THEN IF exponent.val >= 0
                 THEN result = Integer(Pow(base.val, exponent.val))
                 ELSE result = Power(base, exponent)
            ELSE result = Power(base, exponent)

\* C24: reduce(Exponential(t)) is Exponential(reduce(t)) and
\* reduce(Logarithm(t)) is Logarithm(reduce(t)).
C24_UnaryOperandReduced ==
    (/\ pc = "reduced" /\ subject.tag \in {"Exponential", "Logarithm"}
     /\ ~IsPanic(reduce(subject.args[1]))) =>
        result = Node(subject.tag, subject.val, <<reduce(subject.args[1])>>)

\* The text is the word, "(", an argument and ")".
IsCall(word, string) ==
    /\ Len(string) >= Len(word) + 2
    /\ SubSeq(string, 1, Len(word) + 1) = word \o <<"(">>
    /\ string[Len(string)] = ")"

\* The argument of such a text.
Argument(word, string) == SubSeq(string, Len(word) + 2, Len(string) - 1)

\* The text is a well-formed additive formula: the grammar reads all of it.
WellFormed(string) ==
    expression_syntax(string).ok /\ expression_syntax(string).rest = <<>>

\* The text is a call of the word on a well-formed formula, and the parser
\* returned the node of the case on the tree of the formula.
ParsedCall(word, case) ==
    (IsCall(word, text) /\ WellFormed(Argument(word, text))) =>
        /\ syntax.ok
        /\ syntax.output =
                Node(case, 0, <<expression_syntax(Argument(word, text)).value>>)

\* C25: for every well-formed formula A, "exp(A)" parses to
\* Exponential(parse(A)) and "log(A)" to Logarithm(parse(A)); "log(" is
\* never read as a Variable named log.
C25_FunctionSyntax ==
    pc = "parsed" =>
        /\ ParsedCall(<<"e", "x", "p">>, "Exponential")
        /\ ParsedCall(<<"l", "o", "g">>, "Logarithm")

\* The identities of the Variables of a tree, from left to right.
RECURSIVE VariablesOf(_)
RECURSIVE VariablesOfEach(_)
VariablesOfEach(es) ==
    IF es = <<>> THEN <<>>
    ELSE VariablesOf(Head(es)) \o VariablesOfEach(Tail(es))
VariablesOf(e) ==
    IF e.tag = "Variable" THEN <<e.val>> ELSE VariablesOfEach(e.args)

\* The elements of a sequence in the order of their first occurrence, those
\* of the set left out.
RECURSIVE FirstOccurrences(_, _)
FirstOccurrences(seq, known) ==
    IF seq = <<>> THEN <<>>
    ELSE IF Head(seq) \in known THEN FirstOccurrences(Tail(seq), known)
    ELSE <<Head(seq)>> \o FirstOccurrences(Tail(seq), known \cup {Head(seq)})

\* The map and the list of the Namespace are inverses of each other, of the
\* same size, and the indices are 0..size-1.
TableConsistent ==
    LET variables == namespace.variables
        identifiers == namespace.identifiers
    IN  /\ DOMAIN identifiers = {variables[i] : i \in DOMAIN variables}
        /\ Cardinality(DOMAIN identifiers) = Len(variables)
        /\ \A name \in DOMAIN identifiers :
            /\ identifiers[name] \in 0..(Len(variables) - 1)
            /\ variables[identifiers[name] + 1] = name

\* A call of intern keeps every index given before, gives the new names the
\* next indices in the order of their first occurrence, and returns a tree
\* with the index of its name at every Variable.
TableExtended ==
    /\ namespace'.variables =
            namespace.variables
                \o FirstOccurrences(VariablesOf(subject'),
                                    DOMAIN namespace.identifiers)
    /\ \A name \in DOMAIN namespace.identifiers :
            /\ name \in DOMAIN namespace'.identifiers
            /\ namespace'.identifiers[name] = namespace.identifiers[name]
    /\ Len(VariablesOf(result')) = Len(VariablesOf(subject'))
    /\ \A i \in 1..Len(VariablesOf(subject')) :
            VariablesOf(result')[i] =
                namespace'.identifiers[VariablesOf(subject')[i]]

\* C26: after any sequence of calls of intern on one Namespace the map and
\* the list are inverses of each other with the indices 0..size-1 in the
\* order of first occurrence, equal names have equal indices and distinct
\* names distinct ones, and no call changes an index given by an earlier one.
C26_TableConsistent == [](TableConsistent) /\ [][TableExtended]_vars

\* A second call has added the name z behind the names of the first call
\* and has found the name y again.
C26_Witness ==
    /\ pc = "interned"
    /\ namespace.variables = << <<"y">>, <<"x">>, <<"z">> >>
    /\ subject = Sum(<<Variable(<<"z">>), Variable(<<"y">>)>>)
    /\ result = Sum(<<Variable(2), Variable(0)>>)

\* The tree has the Variable of the identity somewhere.
RECURSIVE Occurs(_, _)
Occurs(identity, e) ==
    \/ e.tag = "Variable" /\ e.val = identity
    \/ \E i \in 1..Len(e.args) : Occurs(identity, e.args[i])

\* C27: for every tree in which Variable(v) does not occur, the reduced
\* derivative with respect to v is Integer(0).
C27_AbsentVariableVanishes ==
    (pc = "derived" /\ ~Occurs(variable, expression)) => result = Integer(0)

===========================================================================
